---- MODULE Spec2Model ----
(***************************************************************************)
(* Campus Booking API (src/booking_api.py): the venue registry, the        *)
(* booking store and the handlers that read and write them.                *)
(*                                                                         *)
(* The store is a SQLite file shared by every worker that serves the app.  *)
(* Each handler opens its own connection; create_booking runs its          *)
(* availability query on one connection (is_available) and its INSERT on   *)
(* another, so the two are separate database transactions and other        *)
(* requests may be served between them.                                    *)
(***************************************************************************)
EXTENDS Integers, Sequences, FiniteSets, TLC

VARIABLES
    venues,     \* rows of table venues: [id, name]
    bookings,   \* committed rows of table bookings
    seq,        \* sqlite_sequence of bookings (AUTOINCREMENT): last id handed out
    call,       \* per client: the request in flight (with the ids its conflict
                \* query saw on the venue) or the last response
    workload    \* what the clients of this run send (fixed by Init)

vars == <<venues, bookings, seq, call, workload>>

(***************************************************************************)
(* Bounds of the model.                                                    *)
(***************************************************************************)
MaxHour == 2      \* wall-clock hours 0..MaxHour appear in timestamps
MaxId == 2        \* cap on the AUTOINCREMENT counter of bookings

(***************************************************************************)
(* Timestamps.  A timestamp is the ISO-8601 string                         *)
(* "2024-01-01T0h:00:00" followed by a UTC designator or offset; it is     *)
(* kept as the pair (h, z) of its hour digits and its suffix.  Malformed   *)
(* stands for a string datetime.fromisoformat rejects.  A workload W names *)
(* the hours and the suffixes its clients write.                           *)
(***************************************************************************)
Suffixes == {"Z", "+00:00", "-01:00"}

Malformed == [h |-> 99, z |-> "?"]

Timestamps(W) == [h : W.hours, z : W.formats] \cup {Malformed}

\* str.replace('Z', '+00:00')
replaceZ(ts) == IF ts.z = "Z" THEN [ts EXCEPT !.z = "+00:00"] ELSE ts

\* the utcoffset, in hours, of a parsed offset suffix
utcoffset(z) == IF z = "-01:00" THEN -1 ELSE 0

\* datetime.fromisoformat raises ValueError unless the string parses
parses(ts) == ts.z \in {"+00:00", "-01:00"}

\* datetime.fromisoformat of a string that parses: an aware datetime, kept as
\* its instant in hours UTC (aware datetimes compare by instant)
fromisoformat(ts) == ts.h - utcoffset(ts.z)

\* The instant a client means by a timestamp string.
Instant(ts) == fromisoformat(replaceZ(ts))

\* Byte order of the suffix characters: '+' (0x2B) < '-' (0x2D) < '?' < 'Z'.
SuffixRank(z) ==
    CASE z = "+00:00" -> 0
      [] z = "-01:00" -> 1
      [] z = "?" -> 2
      [] z = "Z" -> 3

\* SQLite compares the TEXT values of start_time/end_time bytewise (memcmp):
\* the common prefix up to the hour digits first, then the suffix.
TextLess(a, b) ==
    \/ a.h < b.h
    \/ a.h = b.h /\ SuffixRank(a.z) < SuffixRank(b.z)

(***************************************************************************)
(* Venue registry.                                                         *)
(***************************************************************************)
default_venues ==
    << "Lecture Hall A", "Lecture Hall B", "Main Library", "Science Lab 1",
       "Auditorium", "Study Room 101", "Computer Lab", "Conference Room A" >>

\* SELECT name FROM venues WHERE id = ?  (fetchone: a row or None)
venue_rows(venue_id) == {v \in venues : v.id = venue_id}

(***************************************************************************)
(* Requests and responses.                                                 *)
(***************************************************************************)
BookingRequest(W) ==
    [venue_id : W.venue_ids, booker_name : W.names,
     start_time : Timestamps(W), end_time : Timestamps(W)]

Requests == BookingRequest(workload)

AvailabilityRequest(W) ==
    [venue_id : W.venue_ids,
     start_time : Timestamps(W), end_time : Timestamps(W)]

AvailabilityRequests == AvailabilityRequest(workload)

NoReq == [venue_id |-> 0, booker_name |-> "", start_time |-> Malformed,
          end_time |-> Malformed]

NoBody == [id |-> 0]

HTTPException(status_code, detail) ==
    [code |-> status_code, detail |-> detail, body |-> NoBody]

NoResp == [code |-> 0, detail |-> "", body |-> NoBody]

BookingResponse(id, r, venue_name) ==
    [code |-> 200, detail |-> "",
     body |-> [id |-> id, venue_id |-> r.venue_id, venue_name |-> venue_name,
               booker_name |-> r.booker_name, start_time |-> r.start_time,
               end_time |-> r.end_time]]

Idle == [pc |-> "idle", req |-> NoReq, seen |-> {}, resp |-> NoResp]

Done(resp) == [pc |-> "done", req |-> NoReq, seen |-> {}, resp |-> resp]

Procs == DOMAIN call

(***************************************************************************)
(* is_available: the conflict query, on the committed rows.                *)
(***************************************************************************)
\* SELECT * FROM bookings WHERE venue_id = ?
\*   AND (start_time < ? AND end_time > ?)      -- (venue_id, end_time, start_time)
\* Variant: the query without its venue_id = ? condition.
conflict_rows_any_venue(rows, venue_id, start_time, end_time) ==
    {b \in rows : /\ TextLess(b.start_time, end_time)
                  /\ TextLess(start_time, b.end_time)}

\* Variant: the query's parameters bound as (venue_id, start_time, end_time).
conflict_rows_args_swapped(rows, venue_id, start_time, end_time) ==
    {b \in rows : /\ b.venue_id = venue_id
                  /\ TextLess(b.start_time, start_time)
                  /\ TextLess(end_time, b.end_time)}

conflict_rows(rows, venue_id, start_time, end_time) ==
    {b \in rows : /\ b.venue_id = venue_id
                  /\ TextLess(b.start_time, end_time)
                  /\ TextLess(start_time, b.end_time)}

is_available(venue_id, start_time, end_time) ==
    conflict_rows(bookings, venue_id, start_time, end_time) = {}

(***************************************************************************)
(* init_database: CREATE TABLE IF NOT EXISTS, then seed the venues when    *)
(* the table is empty.                                                     *)
(***************************************************************************)
\* Variant: the seed is inserted without the COUNT(*) test.
init_database_always(p) ==
    /\ call[p].pc \in {"down", "idle", "done"}
    /\ venues' = venues \cup
                    {[id |-> Cardinality(venues) + i, name |-> default_venues[i]] :
                        i \in 1..Len(default_venues)}
    /\ call' = [call EXCEPT ![p] = Idle]
    /\ UNCHANGED <<bookings, seq, workload>>

\* Runs at the startup of the worker that serves client p (and again at each
\* restart of it, between requests).  The COUNT(*) and the INSERT of one run
\* are one step: the workers are started one after the other.
init_database(p) ==
    /\ call[p].pc \in {"down", "idle", "done"}
    /\ venues' = IF venues = {}
                 THEN {[id |-> i, name |-> default_venues[i]] :
                          i \in 1..Len(default_venues)}
                 ELSE venues
    /\ call' = [call EXCEPT ![p] = Idle]
    /\ UNCHANGED <<bookings, seq, workload>>

(***************************************************************************)
(* create_booking, first transaction: parse and validate the timestamps,   *)
(* then run the availability query (lines 172-185).                        *)
(***************************************************************************)
\* Variant: the interval test written end_dt < start_dt.
create_booking_validate_lt(r) ==
    LET start_dt == fromisoformat(replaceZ(r.start_time))
        end_dt == fromisoformat(replaceZ(r.end_time))
    IN  IF ~parses(replaceZ(r.start_time)) \/ ~parses(replaceZ(r.end_time))
        THEN HTTPException(400, "Invalid datetime format")
        ELSE IF end_dt < start_dt
        THEN HTTPException(400, "End time must be after start time")
        ELSE NoResp

create_booking_validate(r) ==
    LET start_dt == fromisoformat(replaceZ(r.start_time))
        end_dt == fromisoformat(replaceZ(r.end_time))
    IN  IF ~parses(replaceZ(r.start_time)) \/ ~parses(replaceZ(r.end_time))
        THEN HTTPException(400, "Invalid datetime format")
        ELSE IF end_dt <= start_dt
        THEN HTTPException(400, "End time must be after start time")
        ELSE NoResp

\* Variant: the admission compares the parsed instants, not the strings.
create_booking_reject_instants(r) ==
    LET bad == create_booking_validate(r)
    IN  IF bad # NoResp
        THEN bad
        ELSE IF \E b \in bookings :
                   /\ b.venue_id = r.venue_id
                   /\ Instant(b.start_time) < Instant(r.end_time)
                   /\ Instant(r.start_time) < Instant(b.end_time)
        THEN HTTPException(409, "Venue is not available for the selected time")
        ELSE NoResp

\* The HTTPException the first transaction raises, NoResp when it raises none.
create_booking_reject(r) ==
    LET bad == create_booking_validate(r)
    IN  IF bad # NoResp
        THEN bad
        ELSE IF ~is_available(r.venue_id, r.start_time, r.end_time)
        THEN HTTPException(409, "Venue is not available for the selected time")
        ELSE NoResp

create_booking_check(p, r) ==
    /\ call[p].pc \in {"idle", "done"}
    /\ LET rejected == create_booking_reject(r)
       IN  IF rejected # NoResp
           THEN call' = [call EXCEPT ![p] = Done(rejected)]
           ELSE \* the model's cap on the id counter: a call starts its
                \* query only while an id is left for it and for every call
                \* already between query and insert
                /\ seq + Cardinality({q \in Procs : call[q].pc = "checked"})
                      < MaxId
                /\ call' = [call EXCEPT ![p] =
                      [pc |-> "checked", req |-> r,
                       seen |-> {b.id : b \in {x \in bookings :
                                                 x.venue_id = r.venue_id}},
                       resp |-> NoResp]]
    /\ UNCHANGED <<venues, bookings, seq, workload>>

(***************************************************************************)
(* create_booking, second transaction: INSERT, read the venue name,        *)
(* commit (lines 187-215).  An exception before the commit closes the      *)
(* connection, which rolls the INSERT and the counter back.                *)
(***************************************************************************)
\* Variant: the row stores the parsed (normalized) timestamps.
new_row_normalized(id, r) ==
    [id |-> id, venue_id |-> r.venue_id, booker_name |-> r.booker_name,
     start_time |-> replaceZ(r.start_time), end_time |-> replaceZ(r.end_time)]

new_row(id, r) ==
    [id |-> id, venue_id |-> r.venue_id, booker_name |-> r.booker_name,
     start_time |-> r.start_time, end_time |-> r.end_time]

\* Variant: conn.commit() placed right after the INSERT, before the venue
\* name is read.
create_booking_insert_commit_first(p) ==
    /\ call[p].pc = "checked"
    /\ seq < MaxId
    /\ LET r == call[p].req
           booking_id == seq + 1
           names == {v.name : v \in venue_rows(r.venue_id)}
       IN  /\ bookings' = bookings \cup {new_row(booking_id, r)}
           /\ seq' = booking_id
           /\ IF names = {}
              THEN call' = [call EXCEPT ![p] = Done(HTTPException(500,
                                "Database error"))]
              ELSE \E venue_name \in names :
                      call' = [call EXCEPT ![p] =
                          Done(BookingResponse(booking_id, r, venue_name))]
    /\ UNCHANGED <<venues, workload>>

\* Variant: a missing venue row gives an empty venue_name instead of the
\* TypeError.
create_booking_insert_unnamed(p) ==
    /\ call[p].pc = "checked"
    /\ seq < MaxId
    /\ LET r == call[p].req
           booking_id == seq + 1
           names == {v.name : v \in venue_rows(r.venue_id)}
       IN  /\ bookings' = bookings \cup {new_row(booking_id, r)}
           /\ seq' = booking_id
           /\ \E venue_name \in IF names = {} THEN {""} ELSE names :
                 call' = [call EXCEPT ![p] =
                     Done(BookingResponse(booking_id, r, venue_name))]
    /\ UNCHANGED <<venues, workload>>

\* Variant: the id column without AUTOINCREMENT (largest stored id plus one).
create_booking_insert_rowid(p) ==
    /\ call[p].pc = "checked"
    /\ LET r == call[p].req
           booking_id == 1 + Cardinality({i \in 1..MaxId :
                                 \E b \in bookings : b.id >= i})
           names == {v.name : v \in venue_rows(r.venue_id)}
       IN  IF names = {}
           THEN /\ call' = [call EXCEPT ![p] = Done(HTTPException(500,
                                "Database error"))]
                /\ UNCHANGED <<bookings, seq>>
           ELSE /\ booking_id <= MaxId
                /\ bookings' = bookings \cup {new_row(booking_id, r)}
                /\ seq' = booking_id
                /\ \E venue_name \in names :
                      call' = [call EXCEPT ![p] =
                          Done(BookingResponse(booking_id, r, venue_name))]
    /\ UNCHANGED <<venues, workload>>

\* Variant: the second transaction waits until no other call on the same
\* venue is between its query and its insert.
create_booking_insert_waiting(p) ==
    /\ call[p].pc = "checked"
    /\ \A q \in Procs \ {p} :
          ~(call[q].pc = "checked"
            /\ call[q].req.venue_id = call[p].req.venue_id)
    /\ LET r == call[p].req
           booking_id == seq + 1
           names == {v.name : v \in venue_rows(r.venue_id)}
       IN  IF names = {}
           THEN /\ call' = [call EXCEPT ![p] = Done(HTTPException(500,
                                "Database error"))]
                /\ UNCHANGED <<bookings, seq>>
           ELSE /\ seq < MaxId
                /\ bookings' = bookings \cup {new_row(booking_id, r)}
                /\ seq' = booking_id
                /\ \E venue_name \in names :
                      call' = [call EXCEPT ![p] =
                          Done(BookingResponse(booking_id, r, venue_name))]
    /\ UNCHANGED <<venues, workload>>

create_booking_insert(p) ==
    /\ call[p].pc = "checked"
    /\ LET r == call[p].req
           booking_id == seq + 1
           names == {v.name : v \in venue_rows(r.venue_id)}
       IN  IF names = {}
           THEN \* cursor.fetchone() is None: TypeError, caught, no commit
                /\ call' = [call EXCEPT ![p] = Done(HTTPException(500,
                                "Database error"))]
                /\ UNCHANGED <<bookings, seq>>
           ELSE /\ seq < MaxId
                /\ bookings' = bookings \cup {new_row(booking_id, r)}
                /\ seq' = booking_id
                /\ \E venue_name \in names :
                      call' = [call EXCEPT ![p] =
                          Done(BookingResponse(booking_id, r, venue_name))]
    /\ UNCHANGED <<venues, workload>>

(***************************************************************************)
(* get_venues: every venue, ORDER BY name.                                 *)
(***************************************************************************)
\* The default names in byte order (the order of ORDER BY name).
names_ordered ==
    << "Auditorium", "Computer Lab", "Conference Room A", "Lecture Hall A",
       "Lecture Hall B", "Main Library", "Science Lab 1", "Study Room 101" >>

NameRank(name) == CHOOSE i \in 1..Len(names_ordered) : names_ordered[i] = name

venues_by_name ==
    [i \in 1..Cardinality(venues) |->
        CHOOSE v \in venues :
            Cardinality({w \in venues :
                \/ NameRank(w.name) < NameRank(v.name)
                \/ NameRank(w.name) = NameRank(v.name) /\ w.id < v.id}) = i - 1]

get_venues(p) ==
    /\ call[p].pc \in {"idle", "done"}
    /\ call' = [call EXCEPT ![p] = Done(
          [code |-> 200, detail |-> "", body |-> [venues |-> venues_by_name]])]
    /\ UNCHANGED <<venues, bookings, seq, workload>>

(***************************************************************************)
(* get_bookings: bookings JOIN venues, ORDER BY b.start_time.              *)
(***************************************************************************)
joined_rows ==
    {[id |-> b.id, venue_id |-> b.venue_id, venue_name |-> v.name,
      booker_name |-> b.booker_name, start_time |-> b.start_time,
      end_time |-> b.end_time] :
        <<b, v>> \in {x \in bookings \X venues : x[1].venue_id = x[2].id}}

StartsBefore(a, b) == TextLess(a.start_time, b.start_time)

\* The sequences that hold each row of S once, in an order in which no row
\* comes before one that starts before it (equal start_time in any order).
ordered_by_start_time(S) ==
    {s \in [1..Cardinality(S) -> S] :
        /\ \A i, j \in 1..Cardinality(S) : i # j => s[i] # s[j]
        /\ \A i, j \in 1..Cardinality(S) : i < j => ~StartsBefore(s[j], s[i])}

get_bookings(p) ==
    /\ call[p].pc \in {"idle", "done"}
    /\ \E rows \in ordered_by_start_time(joined_rows) :
          call' = [call EXCEPT ![p] = Done(
              [code |-> 200, detail |-> "", body |-> [bookings |-> rows]])]
    /\ UNCHANGED <<venues, bookings, seq, workload>>

(***************************************************************************)
(* check_availability: the advisory query.                                 *)
(***************************************************************************)
\* Variant: an available interval is held for the caller.
check_availability_holding(p, r) ==
    /\ call[p].pc \in {"idle", "done"}
    /\ LET available == is_available(r.venue_id, r.start_time, r.end_time)
       IN  /\ call' = [call EXCEPT ![p] =
                 Done([code |-> 200, detail |-> "",
                       body |-> [available |-> available]])]
           /\ bookings' = IF available /\ create_booking_validate(r) = NoResp
                           THEN bookings \cup
                                  {[id |-> seq + 1, venue_id |-> r.venue_id,
                                    booker_name |-> "",
                                    start_time |-> r.start_time,
                                    end_time |-> r.end_time]}
                           ELSE bookings
    /\ UNCHANGED <<venues, seq, workload>>

\* The body the handler returns: {"available": available}.
check_availability_return(r) ==
    [available |-> is_available(r.venue_id, r.start_time, r.end_time)]

check_availability(p, r) ==
    /\ call[p].pc \in {"idle", "done"}
    /\ call' = [call EXCEPT ![p] = Done(
          [code |-> 200, detail |-> "", body |-> check_availability_return(r)])]
    /\ UNCHANGED <<venues, bookings, seq, workload>>

(***************************************************************************)
(* delete_booking: DELETE by id, 404 when no row was deleted.              *)
(***************************************************************************)
\* Variant: the delete cascades to the other bookings of the same venue.
delete_booking_cascade(p, booking_id) ==
    /\ call[p].pc \in {"idle", "done"}
    /\ LET rows == {b \in bookings : b.id = booking_id}
       IN  IF rows = {}
           THEN /\ call' = [call EXCEPT ![p] =
                               Done(HTTPException(404, "Booking not found"))]
                /\ UNCHANGED bookings
           ELSE /\ bookings' = {b \in bookings :
                                  \A x \in rows : b.venue_id # x.venue_id}
                /\ call' = [call EXCEPT ![p] = Done(
                      [code |-> 200, detail |-> "",
                       body |-> [message |-> "Booking deleted successfully"]])]
    /\ UNCHANGED <<venues, seq, workload>>

delete_booking(p, booking_id) ==
    /\ call[p].pc \in {"idle", "done"}
    /\ LET rows == {b \in bookings : b.id = booking_id}
       IN  IF rows = {}
           THEN /\ call' = [call EXCEPT ![p] =
                               Done(HTTPException(404, "Booking not found"))]
                /\ UNCHANGED bookings
           ELSE /\ bookings' = bookings \ rows
                /\ call' = [call EXCEPT ![p] = Done(
                      [code |-> 200, detail |-> "",
                       body |-> [message |-> "Booking deleted successfully"]])]
    /\ UNCHANGED <<venues, seq, workload>>

(***************************************************************************)
(* Specifications.                                                         *)
(***************************************************************************)
\* One client at a time.  A run's clients either mix the "Z" form with one
\* of the offset forms, on a known venue, or write one form, with and without
\* a booker name, for a known venue and an unknown one.
SerialWorkloads ==
    {[venue_ids |-> {1}, names |-> {"ann"}, formats |-> {"Z", z},
      hours |-> 0..MaxHour] : z \in Suffixes \ {"Z"}}
    \cup {[venue_ids |-> {1, 9}, names |-> {"ann", ""}, formats |-> {"Z"},
           hours |-> 0..MaxHour]}

\* Concurrent clients that all write the "Z" form: two known venues and one
\* bookable hour, or (below) one venue and two hours.
ZWorkload ==
    [venue_ids |-> {1, 2}, names |-> {"ann"}, formats |-> {"Z"},
     hours |-> {0, 1}]

ZOneVenueWorkload ==
    [venue_ids |-> {1}, names |-> {"ann"}, formats |-> {"Z"},
     hours |-> {0, 1, 2}]

\* Concurrent clients of one venue that mix the "Z" form with an offset.
MixedConcWorkload ==
    [venue_ids |-> {1}, names |-> {"ann"}, formats |-> {"Z", "-01:00"},
     hours |-> {0, 1}]

InitWith(P, W) ==
    /\ venues = {}
    /\ bookings = {}
    /\ seq = 0
    /\ call = [p \in P |-> [pc |-> "down", req |-> NoReq, seen |-> {},
                            resp |-> NoResp]]
    /\ workload \in W

Init == InitWith({1}, SerialWorkloads)

\* Two workers serve two clients at once: enough for every interleaving of
\* one request's two transactions with another request.
ConcurrentClients == {1, 2}

InitConc == InitWith(ConcurrentClients, {ZWorkload, ZOneVenueWorkload})

InitMixedConc == InitWith(ConcurrentClients, {MixedConcWorkload})

Next ==
    \/ \E p \in Procs : init_database(p)
    \/ \E p \in Procs, r \in Requests : create_booking_check(p, r)
    \/ \E p \in Procs : create_booking_insert(p)
    \/ \E p \in Procs, r \in AvailabilityRequests : check_availability(p, r)
    \/ \E p \in Procs, id \in 1..MaxId : delete_booking(p, id)
    \/ \E p \in Procs : get_venues(p)
    \/ \E p \in Procs : get_bookings(p)

Spec == Init /\ [][Next]_vars

SpecConc == InitConc /\ [][Next]_vars

SpecMixedConc == InitMixedConc /\ [][Next]_vars

\* Concurrent clients under fair scheduling: a handler that has run its
\* conflict query goes on to its second transaction.
Fairness == \A p \in ConcurrentClients : WF_vars(create_booking_insert(p))

SpecFair == InitConc /\ [][Next]_vars /\ Fairness

(***************************************************************************)
(* Vocabulary of the properties.                                           *)
(***************************************************************************)
\* Half-open intervals [s1, e1) and [s2, e2) of instants overlap.
Overlap(s1, e1, s2, e2) == s1 < e2 /\ s2 < e1

\* Two rows overlap as intervals of instants.
RowsOverlap(a, b) ==
    Overlap(Instant(a.start_time), Instant(a.end_time),
            Instant(b.start_time), Instant(b.end_time))

\* A request whose timestamps parse and whose interval has end > start.
ValidInterval(r) ==
    /\ parses(replaceZ(r.start_time)) /\ parses(replaceZ(r.end_time))
    /\ Instant(r.end_time) > Instant(r.start_time)

KnownVenue(venue_id) == \E v \in venues : v.id = venue_id

Started == venues # {}

\* The response of a successful create_booking.
IsCreated(c) ==
    c.pc = "done" /\ c.resp.code = 200 /\ "venue_id" \in DOMAIN c.resp.body

\* A step in which client p's create_booking ends with a failure response.
CreateFails(p) ==
    /\ call'[p] # call[p]
    /\ call'[p].pc = "done"
    /\ call'[p].resp.code \in {400, 409, 500}

\* A step in which client p's create_booking commits and answers 200.
CreateSucceeds(p) ==
    /\ call[p].pc = "checked"
    /\ IsCreated(call'[p])

(***************************************************************************)
(* C1.  Non-overlap invariant: any two distinct committed bookings of the  *)
(* same venue have non-overlapping intervals, in every state a reader can  *)
(* observe, under concurrent admissions and deletions.                     *)
(***************************************************************************)
C1_NonOverlap ==
    \A a, b \in bookings :
        (a.id # b.id /\ a.venue_id = b.venue_id) => ~RowsOverlap(a, b)

(***************************************************************************)
(* C2.  Of the concurrent admissions of one venue whose intervals          *)
(* overlap, exactly one succeeds: no two clients hold a success response   *)
(* for overlapping intervals of one venue while both bookings are stored.  *)
(***************************************************************************)
C2_ExactlyOneSucceeds ==
    \A p, q \in Procs :
        (/\ p # q
         /\ IsCreated(call[p]) /\ IsCreated(call[q])
         /\ call[p].resp.body.venue_id = call[q].resp.body.venue_id
         /\ RowsOverlap(call[p].resp.body, call[q].resp.body)
         /\ \E a, b \in bookings : /\ a.id = call[p].resp.body.id
                                   /\ b.id = call[q].resp.body.id)
        => FALSE

(***************************************************************************)
(* C3.  Atomic check-and-insert: when an admission inserts its booking,    *)
(* every booking committed on that venue was already there when its        *)
(* conflict query ran (no other admission came between the two).           *)
(***************************************************************************)
C3_AtomicCheckInsert ==
    [][\A p \in Procs :
          CreateSucceeds(p) =>
             {b.id : b \in {x \in bookings :
                              x.venue_id = call[p].req.venue_id}}
                \subseteq call[p].seen]_vars

(***************************************************************************)
(* C4.  For a known venue and a valid interval, the admission is rejected  *)
(* with Conflict exactly when the store holds a booking of that venue      *)
(* that overlaps the request under s' < e /\ s < e'.                       *)
(***************************************************************************)
C4_ConflictIffOverlap ==
    \A r \in Requests :
        (Started /\ KnownVenue(r.venue_id) /\ ValidInterval(r)) =>
           (create_booking_reject(r).code = 409
              <=> \E b \in bookings :
                     b.venue_id = r.venue_id /\ RowsOverlap(b, r))

(***************************************************************************)
(* C5.  Boundary adjacency: a request that starts at the instant a stored  *)
(* booking of the venue ends, or ends at the instant one starts, and       *)
(* overlaps no stored booking, is not rejected with Conflict.              *)
(***************************************************************************)
C5_AdjacentAdmitted ==
    \A r \in Requests :
        (/\ Started /\ KnownVenue(r.venue_id) /\ ValidInterval(r)
         /\ \E b \in bookings :
               /\ b.venue_id = r.venue_id
               /\ \/ Instant(b.end_time) = Instant(r.start_time)
                  \/ Instant(r.end_time) = Instant(b.start_time)
         /\ \A b \in bookings :
               b.venue_id = r.venue_id => ~RowsOverlap(b, r))
        => create_booking_reject(r).code # 409

(***************************************************************************)
(* C6.  Timestamp normalization: writing "+00:00" for "Z", in the request  *)
(* or in the stored bookings, never changes whether the conflict query     *)
(* reports a conflict.                                                     *)
(***************************************************************************)
NormalizedRow(b) ==
    [b EXCEPT !.start_time = replaceZ(b.start_time),
              !.end_time = replaceZ(b.end_time)]

C6_ZEqualsOffset ==
    \A r \in AvailabilityRequests :
        ValidInterval(r) =>
           LET found(rows, s, e) == conflict_rows(rows, r.venue_id, s, e) # {}
               stored == {NormalizedRow(b) : b \in bookings}
           IN  /\ found(bookings, r.start_time, r.end_time)
                    = found(bookings, replaceZ(r.start_time),
                            replaceZ(r.end_time))
               /\ found(bookings, r.start_time, r.end_time)
                    = found(stored, r.start_time, r.end_time)

(***************************************************************************)
(* C7.  Invalid interval rejected: a request whose end is not after its    *)
(* start is answered 400 "End time must be after start time", whatever     *)
(* the venue it names and whatever the store holds, and never reaches the  *)
(* conflict query.                                                         *)
(***************************************************************************)
C7_InvalidIntervalRejected ==
    \A r \in Requests :
        (/\ parses(replaceZ(r.start_time)) /\ parses(replaceZ(r.end_time))
         /\ Instant(r.end_time) <= Instant(r.start_time))
        => /\ create_booking_reject(r) =
                 HTTPException(400, "End time must be after start time")
           /\ \A p \in Procs : call[p].pc = "checked" => call[p].req # r

\* An invalid interval has been rejected while the venue held a booking that
\* the conflict query would have matched.
C7_Witness ==
    \E p \in Procs :
        /\ call[p].pc = "done"
        /\ call[p].resp = HTTPException(400, "End time must be after start time")
        /\ \E r \in Requests :
              /\ Instant(r.end_time) <= Instant(r.start_time)
              /\ conflict_rows(bookings, r.venue_id, r.start_time, r.end_time) # {}

(***************************************************************************)
(* C8.  Unknown venue rejected: a request with a valid interval and a      *)
(* venue id that is not in the registry is refused in the first            *)
(* transaction with a client error that is neither 400 nor 409, and never  *)
(* reaches the insert.                                                     *)
(***************************************************************************)
C8_UnknownVenueRejected ==
    /\ \A r \in Requests :
          (Started /\ ~KnownVenue(r.venue_id) /\ ValidInterval(r)) =>
              create_booking_reject(r).code \in (400..499) \ {400, 409}
    /\ \A p \in Procs :
          call[p].pc = "checked" => KnownVenue(call[p].req.venue_id)

(***************************************************************************)
(* C9.  A create_booking that ends in a failure (400, 409 or 500) leaves   *)
(* the committed bookings, the id counter and the venues as they were.     *)
(***************************************************************************)
C9_RejectedLeavesStore ==
    [][\A p \in Procs :
          CreateFails(p) =>
             bookings' = bookings /\ venues' = venues /\ seq' = seq]_vars

\* A create_booking has failed after its INSERT was issued (500), with a
\* booking in the store.
C9_Witness ==
    \E p \in Procs :
        /\ call[p].pc = "done" /\ call[p].resp.code = 500
        /\ bookings # {}

(***************************************************************************)
(* C10.  A successful create_booking adds exactly one row, with a fresh    *)
(* id and the requested venue_id, booker_name, start_time and end_time,    *)
(* and returns that id, the same fields and the venue's display name.      *)
(***************************************************************************)
C10_SuccessCommitsRequest ==
    [][\A p \in Procs :
          CreateSucceeds(p) =>
             LET r == call[p].req
                 body == call'[p].resp.body
             IN  /\ body.id \notin {b.id : b \in bookings}
                 /\ bookings' = bookings \cup
                       {[id |-> body.id, venue_id |-> r.venue_id,
                         booker_name |-> r.booker_name,
                         start_time |-> r.start_time,
                         end_time |-> r.end_time]}
                 /\ venues' = venues
                 /\ body.venue_id = r.venue_id
                 /\ body.booker_name = r.booker_name
                 /\ body.start_time = r.start_time
                 /\ body.end_time = r.end_time
                 /\ [id |-> r.venue_id, name |-> body.venue_name] \in venues]_vars

\* A booking has been admitted next to an earlier one and both are stored.
C10_Witness ==
    \E p \in Procs :
        /\ IsCreated(call[p])
        /\ \E b \in bookings : b.id = call[p].resp.body.id
        /\ Cardinality(bookings) = 2

(***************************************************************************)
(* C11.  Different venues are independent: for a known venue and a valid   *)
(* interval, whether an admission is rejected with Conflict is decided by  *)
(* the bookings of the requested venue alone, and an admission that passed *)
(* its conflict query commits whatever the other clients do in between; so *)
(* identical intervals on two venues both succeed in every interleaving.   *)
(***************************************************************************)
OfVenue(venue_id) == {b \in bookings : b.venue_id = venue_id}

C11_VenuesIndependent ==
    /\ [](\A r \in Requests :
            (Started /\ KnownVenue(r.venue_id) /\ ValidInterval(r)) =>
               /\ create_booking_reject(r).code \in {0, 409}
               /\ create_booking_reject(r).code = 409
                     <=> conflict_rows(OfVenue(r.venue_id), r.venue_id,
                                       r.start_time, r.end_time) # {})
    /\ [][\A p \in Procs :
            (/\ call[p].pc = "checked" /\ call'[p] # call[p]
             /\ KnownVenue(call[p].req.venue_id))
            => /\ IsCreated(call'[p])
               /\ new_row(call'[p].resp.body.id, call[p].req) \in bookings']_vars

\* Both clients hold a success for the same interval, on two venues.
C11_Witness ==
    \E p, q \in Procs :
        /\ IsCreated(call[p]) /\ IsCreated(call[q])
        /\ call[p].resp.body.venue_id # call[q].resp.body.venue_id
        /\ call[p].resp.body.start_time = call[q].resp.body.start_time
        /\ call[p].resp.body.end_time = call[q].resp.body.end_time
        /\ Cardinality(bookings) = 2

(***************************************************************************)
(* C12.  Delete then re-admit: in the state a successful delete_booking    *)
(* of booking b leaves, provided no remaining booking of b's venue         *)
(* overlaps b, a request with b's venue and interval passes validation and *)
(* the conflict query (and so is admitted).                                *)
(***************************************************************************)
C12_DeleteThenReadmit ==
    [][\A b \in bookings :
          (/\ bookings' = bookings \ {b}
           /\ \E p \in Procs : /\ call'[p] # call[p]
                                /\ call'[p].resp.code = 200
           /\ \A c \in bookings' :
                 c.venue_id = b.venue_id => ~RowsOverlap(c, b))
          => /\ create_booking_validate(b) = NoResp
             /\ conflict_rows(bookings', b.venue_id,
                              b.start_time, b.end_time) = {}]_vars

(***************************************************************************)
(* C13.  deleteBooking(id): when a booking with that id exists the call    *)
(* removes exactly that booking, leaves every other booking and every      *)
(* venue unchanged and answers success; when none exists it answers        *)
(* not-found and leaves the store unchanged.                               *)
(***************************************************************************)
Deleted ==
    [code |-> 200, detail |-> "",
     body |-> [message |-> "Booking deleted successfully"]]

C13_DeleteFrame ==
    [][\A p \in Procs, id \in 1..MaxId :
          delete_booking(p, id) =>
             /\ venues' = venues
             /\ IF \E b \in bookings : b.id = id
                THEN /\ bookings' = {b \in bookings : b.id # id}
                     /\ Cardinality(bookings') = Cardinality(bookings) - 1
                     /\ call'[p].resp = Deleted
                ELSE /\ bookings' = bookings
                     /\ call'[p].resp.code = 404]_vars

\* A delete succeeded while another booking was stored, which is still there.
C13_Witness ==
    /\ \E p \in Procs : call[p].resp = Deleted
    /\ seq = 2
    /\ Cardinality(bookings) = 1

(***************************************************************************)
(* C14.  Idempotent seeding: init_database on an empty registry inserts    *)
(* exactly the default venues, a run on a non-empty registry changes       *)
(* nothing, and so the registry of a started service holds each default    *)
(* venue exactly once however often the initialization has run.            *)
(***************************************************************************)
DefaultNames == {default_venues[i] : i \in 1..Len(default_venues)}

C14_IdempotentSeeding ==
    /\ [](Started =>
            /\ Cardinality(venues) = Len(default_venues)
            /\ \A n \in DefaultNames :
                  Cardinality({v \in venues : v.name = n}) = 1)
    /\ [][\A p \in Procs :
            init_database(p) =>
               /\ venues # {} => venues' = venues
               /\ venues = {} => /\ {v.name : v \in venues'} = DefaultNames
                                 /\ Cardinality(venues') = Len(default_venues)
               /\ UNCHANGED <<bookings, seq>>]_vars

\* The initialization has run again on a registry in use.
C14_Witness ==
    /\ bookings # {}
    /\ \E p \in Procs : call[p] = Idle

(***************************************************************************)
(* C15.  The store is mutated only by admit and delete: the set of         *)
(* bookings changes only in a step where a create_booking succeeds, which  *)
(* adds its one booking, or where a delete_booking succeeds, which removes *)
(* one; check_availability, get_venues and get_bookings leave bookings and *)
(* venues unchanged; and a booking keeps its fields while it is stored.    *)
(***************************************************************************)
\* The response of check_availability, get_venues or get_bookings.
IsRead(c) ==
    /\ c.pc = "done" /\ c.resp.code = 200
    /\ DOMAIN c.resp.body \in {{"available"}, {"venues"}, {"bookings"}}

C15_OnlyAdmitAndDeleteMutate ==
    [][/\ bookings' # bookings =>
             \/ \E p \in Procs :
                   /\ CreateSucceeds(p)
                   /\ call'[p].resp.body.id \notin {b.id : b \in bookings}
                   /\ bookings' = bookings \cup
                         {new_row(call'[p].resp.body.id, call[p].req)}
             \/ \E p \in Procs, b \in bookings :
                   /\ call'[p].resp = Deleted
                   /\ bookings' = bookings \ {b}
       /\ \A p \in Procs :
             (call'[p] # call[p] /\ IsRead(call'[p]))
             => bookings' = bookings /\ seq' = seq /\ venues' = venues
       /\ \A a \in bookings, b \in bookings' : a.id = b.id => a = b
       /\ Started => venues' = venues]_vars

\* A client has listed two stored bookings.
C15_Witness ==
    \E p \in Procs :
        /\ call[p].pc = "done"
        /\ "bookings" \in DOMAIN call[p].resp.body
        /\ Len(call[p].resp.body.bookings) = 2
        /\ Cardinality(bookings) = 2

(***************************************************************************)
(* C16.  Referential integrity: in every reachable state the venue_id of   *)
(* every committed booking is the id of a venue of the registry, also      *)
(* after admissions that name unknown venue ids.                           *)
(***************************************************************************)
C16_ReferentialIntegrity ==
    \A b \in bookings : KnownVenue(b.venue_id)

\* An admission naming an unknown venue has run against a store in use.
C16_Witness ==
    /\ bookings # {}
    /\ \E p \in Procs : /\ call[p].pc = "done"
                         /\ call[p].resp.code = 500

(***************************************************************************)
(* C17.  Stored intervals are valid: in every reachable state every        *)
(* committed booking has end > start strictly, under the ordering the      *)
(* conflict query applies to timestamps (the order of the stored text).    *)
(***************************************************************************)
C17_StoredIntervalsValid ==
    \A b \in bookings : TextLess(b.start_time, b.end_time)

(***************************************************************************)
(* C18.  Booking ids are unique over the whole history: every successful   *)
(* create_booking assigns an id larger than every id assigned before it    *)
(* (seq, which never decreases), also after deletes and among concurrent   *)
(* admissions; so no two bookings share an id and no id is used again.     *)
(***************************************************************************)
C18_IdsUniqueOverHistory ==
    /\ [](\A a, b \in bookings : (a.id = b.id => a = b) /\ a.id <= seq)
    /\ [][/\ seq' >= seq
          /\ \A p \in Procs :
                CreateSucceeds(p) =>
                   /\ call'[p].resp.body.id > seq
                   /\ seq' = call'[p].resp.body.id
                   /\ \A q \in Procs \ {p} :
                         IsCreated(call[q]) =>
                            call[q].resp.body.id # call'[p].resp.body.id]_vars

\* Booking 1 was deleted and a later admission got id 2.
C18_Witness ==
    /\ \E b \in bookings : b.id = 2
    /\ \A b \in bookings : b.id # 1
    /\ \E p, q \in Procs : /\ call[p].resp = Deleted
                            /\ IsCreated(call[q])
                            /\ call[q].resp.body.id = 2

(***************************************************************************)
(* C19.  Serial admissions preserve non-overlap: when all timestamps use   *)
(* one textual format, a create_booking that inserts with no booking       *)
(* committed on its venue since its conflict query ran (deletes may have   *)
(* happened) takes a store without overlapping bookings to a store         *)
(* without overlapping bookings; every other step does so too.             *)
(***************************************************************************)
OneFormat == Cardinality(workload.formats) = 1

SerialInsert(p) ==
    CreateSucceeds(p) =>
        {b.id : b \in OfVenue(call[p].req.venue_id)} \subseteq call[p].seen

C19_SerialAdmissionsNonOverlap ==
    [][(/\ OneFormat
        /\ C1_NonOverlap
        /\ \A p \in Procs : SerialInsert(p))
       => C1_NonOverlap']_vars

\* Two bookings stand on one venue, the second admitted after the first.
C19_Witness ==
    /\ OneFormat
    /\ \E a, b \in bookings : /\ a.id = 1 /\ b.id = 2
                               /\ a.venue_id = b.venue_id
                               /\ ~RowsOverlap(a, b)
    /\ \E p \in Procs : IsCreated(call[p]) /\ call[p].resp.body.id = 2

(***************************************************************************)
(* C20.  The advisory check agrees with admission when nothing             *)
(* intervenes: for a known venue and an interval with end > start,         *)
(* check_availability answers true exactly when a create_booking with the  *)
(* same venue and interval, run next on the unchanged store, is not        *)
(* rejected, and false exactly when it is rejected with 409 Conflict.      *)
(* Both are taken in one state: what check_availability returns there and  *)
(* how the first transaction of create_booking answers there.              *)
(***************************************************************************)
C20_CheckAgreesWithAdmission ==
    \A r \in Requests :
        (Started /\ KnownVenue(r.venue_id) /\ ValidInterval(r)) =>
           LET a == [venue_id |-> r.venue_id, start_time |-> r.start_time,
                     end_time |-> r.end_time]
           IN  /\ a \in AvailabilityRequests
               /\ check_availability_return(a).available
                     <=> create_booking_reject(r) = NoResp
               /\ ~check_availability_return(a).available
                     <=> create_booking_reject(r).code = 409

\* A client was told that an interval of a venue in use is not available.
C20_Witness ==
    /\ bookings # {}
    /\ \E p \in Procs : /\ call[p].pc = "done"
                         /\ "available" \in DOMAIN call[p].resp.body
                         /\ ~call[p].resp.body.available

(***************************************************************************)
(* C21.  listBookings: the list get_bookings returns holds every committed *)
(* booking exactly once and nothing else, each with the name of its venue, *)
(* ordered by start time ascending (equal start times in any order).       *)
(***************************************************************************)
\* Row x of a listing shows booking b with the name of b's venue.
Shows(x, b) ==
    /\ x.id = b.id /\ x.venue_id = b.venue_id
    /\ x.booker_name = b.booker_name
    /\ x.start_time = b.start_time /\ x.end_time = b.end_time
    /\ \E v \in venues : v.id = b.venue_id /\ v.name = x.venue_name

C21_ListBookings ==
    [][\A p \in Procs :
          (call'[p] # call[p] /\ call'[p].pc = "done"
           /\ "bookings" \in DOMAIN call'[p].resp.body)
          => LET rows == call'[p].resp.body.bookings
             IN  /\ Len(rows) = Cardinality(bookings)
                 /\ \A b \in bookings :
                       Cardinality({i \in 1..Len(rows) : Shows(rows[i], b)}) = 1
                 /\ \A i \in 1..Len(rows) :
                       \E b \in bookings : Shows(rows[i], b)
                 /\ \A i, j \in 1..Len(rows) :
                       i < j => Instant(rows[i].start_time)
                                   <= Instant(rows[j].start_time)]_vars

(***************************************************************************)
(* C22.  Every accepted booking has a non-empty booker_name: in every      *)
(* reachable state no committed booking has the empty string as its        *)
(* booker_name.                                                            *)
(***************************************************************************)
C22_BookerNameNonEmpty ==
    \A b \in bookings : b.booker_name # ""

(***************************************************************************)
(* C23.  No indefinite wait: under fair scheduling every create_booking    *)
(* call that has started eventually finishes, with exactly one outcome     *)
(* (success or a failure response), whatever the other clients' admit and  *)
(* delete calls do meanwhile.                                              *)
(***************************************************************************)
C23_NoIndefiniteWait ==
    /\ \A p \in ConcurrentClients :
          (call[p].pc = "checked") ~> (call[p].pc = "done")
    /\ [][\A p \in Procs :
            (call[p].pc = "checked" /\ call'[p] # call[p])
            => /\ call'[p].pc = "done"
               /\ IsCreated(call'[p]) \/ call'[p].resp.code = 500]_vars

\* One client's call is between its query and its insert while another
\* client's admission on the same venue has just committed.
C23_Witness ==
    \E p, q \in Procs :
        /\ call[p].pc = "checked"
        /\ IsCreated(call[q])
        /\ call[q].resp.body.venue_id = call[p].req.venue_id

=============================================================================
